---- MODULE Spec2Model ----
(***************************************************************************)
(* Model of src/src/day_12.rs (Advent of Code 2023, day 12, "Hot Springs"). *)
(*                                                                         *)
(* A ConditionRow is a run-length encoded list of spring groups plus the   *)
(* list of expected damaged-group sizes.  The model covers parse_line,     *)
(* decide, explode, count_permutations and the two summing drivers.        *)
(* Run lengths are u8 in the source: every u8 addition and subtraction     *)
(* goes through U8Add / U8Sub, which either panic (overflow checks on, the *)
(* default of debug builds and of `cargo test`) or wrap modulo 256         *)
(* (overflow checks off, the default of release builds).                   *)
(***************************************************************************)
EXTENDS Integers, Sequences, FiniteSets, TLC

VARIABLES
    overflow_checks,  \* build profile: TRUE = arithmetic overflow panics, FALSE = wraps
    pc,               \* control position of the program
    caller,           \* which entry point is being exercised
    line,             \* text handed to parse_line (sequence of one-character strings)
    row,              \* ConditionRow under operation
    repeats,          \* argument of explode
    result,           \* ConditionRow returned by explode
    rows,             \* argument of sum_permutations / sum_exploded_permutations
    idx,              \* index of the row the summing iterator is at (1-based)
    total,            \* running sum of the summing iterator
    to_visit,         \* count_permutations: worklist, top of stack = last element
    visited,          \* count_permutations: set of springs already expanded
    permutations,     \* count_permutations: counter
    renormalized,     \* row returned by a second decide(0, Operational(0))
    input,            \* text handed to parse_input (sequence of one-character strings)
    parsed,           \* parse_input: the rows collected so far
    cards,            \* day 7: argument of calculate_hand_type
    hand_type,        \* day 7: value returned by calculate_hand_type
    id_range,         \* day 5: argument of progress_id_range
    section,          \* day 5: the AlmanacSection of the range's category
    new_id_ranges,    \* day 5: value returned by progress_id_range
    decide_start,     \* argument `start` of a decide call
    decide_replacement, \* argument `replacement` of a decide call
    instructions,     \* day 8: the list of instructions
    network,          \* day 8: the nodes by label
    starts,           \* day 8: start nodes the iterator has not yielded yet
    position,         \* day 8: count_steps, the node the ghost is on
    steps,            \* day 8: count_steps, the number of steps taken
    fold_acc          \* day 8: accumulator of the fold

\* the state of a decide call made on its own, and of day 8
DecideVars == <<decide_start, decide_replacement>>
Day8Vars == <<instructions, network, starts, position, steps, fold_acc>>

vars == <<overflow_checks, pc, caller, line, row, repeats, result, rows, idx,
          total, to_visit, visited, permutations, renormalized, input, parsed,
          cards, hand_type, id_range, section, new_id_ranges, DecideVars,
          Day8Vars>>

\* the state of the operations other than count_permutations, explode and
\* the sums
OtherVars == <<renormalized, input, parsed, cards, hand_type, id_range,
               section, new_id_ranges, DecideVars, Day8Vars>>

\* no decide call has been made on its own, and day 8 has not run
DecideIdle == decide_start = 0 /\ decide_replacement = <<>>
Day8Idle ==
    /\ instructions = <<>>
    /\ network = <<>>
    /\ starts = {}
    /\ position = <<>>
    /\ steps = 0
    /\ fold_acc = 0

----------------------------------------------------------------------------
(* Bounds of the model *)

MaxCells == 4        \* cells in a row handed to count_permutations
MaxGroups == 2       \* entries of damaged_counts
MaxCount == 2        \* largest entry of damaged_counts
MaxRuns == 2         \* groups in a directly constructed row handed to explode
MaxRunLen == 2       \* small run lengths of directly constructed rows
MaxRepeats == 2      \* largest argument of explode
MaxLineLen == 4      \* characters in a line handed to parse_line

(* Program constants *)

U8Max == 255
ExplodeFactor == 5

----------------------------------------------------------------------------
(* SpringCondition *)

Operational(n) == [type |-> "Operational", n |-> n]
Damaged(n) == [type |-> "Damaged", n |-> n]
Unknown(n) == [type |-> "Unknown", n |-> n]

value(group) == group.n

is_operational(group) == group.type = "Operational"
is_damaged(group) == group.type = "Damaged"
is_unknown(group) == group.type = "Unknown"

with_value(group, v) == [type |-> group.type, n |-> v]

same_type(a, b) ==
    \/ (is_operational(a) /\ is_operational(b))
    \/ (is_damaged(a) /\ is_damaged(b))
    \/ (is_unknown(a) /\ is_unknown(b))

ConditionRow(springs, damaged_counts) ==
    [springs |-> springs, damaged_counts |-> damaged_counts]

----------------------------------------------------------------------------
(* u8 arithmetic.  Overflow is the value returned when the operation      *)
(* panics; otherwise the result is the wrapped u8.                         *)

Overflow == -1

\* mutant: the addition overflows at i8::MAX
U8AddInI8(a, b) ==
    IF a + b > U8Max \div 2
    THEN (IF overflow_checks THEN Overflow ELSE (a + b) % (U8Max + 1))
    ELSE a + b

U8Add(a, b) ==
    IF a + b > U8Max
    THEN (IF overflow_checks THEN Overflow ELSE (a + b) % (U8Max + 1))
    ELSE a + b

U8Sub(a, b) ==
    IF a < b
    THEN (IF overflow_checks THEN Overflow ELSE (a - b + U8Max + 1) % (U8Max + 1))
    ELSE a - b

----------------------------------------------------------------------------
(* Generic sequence helpers *)

Last(s) == s[Len(s)]
Front(s) == SubSeq(s, 1, Len(s) - 1)

Range(s) == {s[i] : i \in 1..Len(s)}

RECURSIVE RepeatAtLeastOnce(_, _)
\* mutant: a repeat count of 0 is treated as 1
RepeatAtLeastOnce(s, k) ==
    IF k <= 1 THEN s ELSE s \o RepeatAtLeastOnce(s, k - 1)

RECURSIVE Repeat(_, _)
\* slice::repeat
Repeat(s, k) == IF k = 0 THEN <<>> ELSE s \o Repeat(s, k - 1)

----------------------------------------------------------------------------
(* ConditionRow::decide *)

\* mutant: the new group is pushed after the merged one as well
push_group_missing_else(vec, new_group) ==
    IF vec # <<>>
    THEN LET prev_group == Last(vec)
             rest == Front(vec)
         IN IF same_type(prev_group, new_group)
            THEN LET sum == U8Add(value(prev_group), value(new_group))
                 IN IF sum = Overflow THEN [panic |-> TRUE, vec |-> vec]
                    ELSE [panic |-> FALSE,
                          vec |-> Append(Append(rest, with_value(new_group, sum)),
                                         new_group)]
            ELSE [panic |-> FALSE,
                  vec |-> Append(Append(rest, prev_group), new_group)]
    ELSE [panic |-> FALSE, vec |-> <<new_group>>]

\* fn push_group: [panic, vec]; panic when the merged length overflows
\* with overflow checks on
push_group(vec, new_group) ==
    IF vec # <<>>
    THEN LET prev_group == Last(vec)
             rest == Front(vec)
         IN IF same_type(prev_group, new_group)
            THEN LET sum == U8Add(value(prev_group), value(new_group))
                 IN IF sum = Overflow THEN [panic |-> TRUE, vec |-> vec]
                    ELSE [panic |-> FALSE,
                          vec |-> Append(rest, with_value(new_group, sum))]
            ELSE [panic |-> FALSE,
                  vec |-> Append(Append(rest, prev_group), new_group)]
    ELSE [panic |-> FALSE, vec |-> <<new_group>>]

\* The loop state of decide.  new_counts is kept in source order: the
\* source reverses the list, pops from the back and reverses again, which
\* removes entries from the front.
DecideState(new_springs, new_counts, start_remaining, replace_remaining, panic) ==
    [new_springs |-> new_springs, new_counts |-> new_counts,
     start_remaining |-> start_remaining,
     replace_remaining |-> replace_remaining, panic |-> panic]

DecidePanic(s) == [s EXCEPT !.panic = TRUE]

\* one iteration of `for group in self.springs.iter()`
DecideGroup(s, group, replacement) ==
    IF s.start_remaining > 0
    THEN LET rem == U8Sub(s.start_remaining, value(group))
         IN IF rem = Overflow THEN DecidePanic(s)
            ELSE IF is_damaged(group)
            THEN \* assert_eq!(Some(group.value()), new_counts.pop())
                 IF s.new_counts # <<>> /\ s.new_counts[1] = value(group)
                 THEN [s EXCEPT !.start_remaining = rem,
                                !.new_counts = Tail(s.new_counts)]
                 ELSE DecidePanic(s)
            ELSE [s EXCEPT !.start_remaining = rem]
    ELSE IF s.replace_remaining = 0
    THEN LET v == push_group(s.new_springs, group)
         IN IF v.panic THEN DecidePanic(s)
            ELSE [s EXCEPT !.new_springs = v.vec]
    ELSE IF s.replace_remaining <= value(group)
    THEN LET v1 == push_group(s.new_springs, replacement)
             v2 == IF v1.panic THEN v1
                   ELSE IF s.replace_remaining < value(group)
                   THEN push_group(v1.vec, with_value(group,
                                       value(group) - s.replace_remaining))
                   ELSE v1
         IN IF v2.panic THEN DecidePanic(s)
            ELSE [s EXCEPT !.new_springs = v2.vec, !.replace_remaining = 0]
    ELSE [s EXCEPT !.replace_remaining = s.replace_remaining - value(group)]

RECURSIVE DecideLoop(_, _, _, _)
DecideLoop(springs, i, s, replacement) ==
    IF s.panic \/ i > Len(springs) THEN s
    ELSE DecideLoop(springs, i + 1, DecideGroup(s, springs[i], replacement),
                    replacement)

\* mutant: the receiver is returned as it is
decide_returns_receiver(self, start, replacement) ==
    [panic |-> FALSE, row |-> self]

\* Result of decide: [panic |-> TRUE] or [panic |-> FALSE, row |-> the new row]
decide(self, start, replacement) ==
    LET s == DecideLoop(self.springs, 1,
                        DecideState(<<>>, self.damaged_counts, start,
                                    value(replacement), FALSE),
                        replacement)
    IN IF s.panic THEN [panic |-> TRUE, row |-> self]
       ELSE [panic |-> FALSE, row |-> ConditionRow(s.new_springs, s.new_counts)]

\* ConditionRow::spring_at: [panic, found, group]
RECURSIVE SpringAtLoop(_, _, _, _)
SpringAtLoop(springs, i, curr, pos) ==
    IF i > Len(springs) THEN [panic |-> FALSE, found |-> FALSE, group |-> Operational(0)]
    ELSE LET c == U8Add(curr, value(springs[i]))
         IN IF c = Overflow
            THEN [panic |-> TRUE, found |-> FALSE, group |-> Operational(0)]
            ELSE IF c > pos
            THEN [panic |-> FALSE, found |-> TRUE, group |-> springs[i]]
            ELSE SpringAtLoop(springs, i + 1, c, pos)

spring_at(self, pos) == SpringAtLoop(self.springs, 1, 0, pos)

----------------------------------------------------------------------------
(* ConditionRow::explode *)

RECURSIVE ExplodeSpringsFromZero(_, _)
\* mutant: the loop runs over 0..repeats
ExplodeSpringsFromZero(springs, repeats_left) ==
    IF repeats_left <= 0 THEN springs
    ELSE ExplodeSpringsFromZero(springs, repeats_left - 1)
             \o <<Unknown(1)>> \o springs

RECURSIVE ExplodeSprings(_, _)
\* the springs vector after the `for _ in 1..repeats` loop
ExplodeSprings(springs, repeats_left) ==
    IF repeats_left <= 1 THEN springs
    ELSE ExplodeSprings(springs, repeats_left - 1) \o <<Unknown(1)>> \o springs

explode(self, k) ==
    decide(ConditionRow(ExplodeSprings(self.springs, k),
                        Repeat(self.damaged_counts, k)),
           0, Operational(0))

----------------------------------------------------------------------------
(* parse_line.  A line is a sequence of one-character strings. *)

\* position of the first occurrence of c in s at or after i, or 0
IndexFrom(s, c, i) ==
    LET hits == {j \in i..Len(s) : s[j] = c}
    IN IF hits = {} THEN 0
       ELSE CHOOSE j \in hits : \A k \in hits : j <= k

\* str::split: the pieces of s between occurrences of sep (never empty as a list)
RECURSIVE Split(_, _)
Split(s, sep) ==
    LET i == IndexFrom(s, sep, 1)
    IN IF i = 0 THEN <<s>>
       ELSE <<SubSeq(s, 1, i - 1)>> \o Split(SubSeq(s, i + 1, Len(s)), sep)

\* length of the run of characters equal to spec[i] that starts at i
RunLength(spec, i) ==
    LET ends == {j \in i..Len(spec) : j = Len(spec) \/ spec[j + 1] # spec[i]}
    IN (CHOOSE j \in ends : \A k \in ends : j <= k) - i + 1

\* fn parse_springs: [panic, springs]; panic is the unreachable!() arm
RECURSIVE parse_springs(_)
parse_springs(spec) ==
    IF spec = <<>> THEN [panic |-> FALSE, springs |-> <<>>]
    ELSE LET chr == spec[1]
             count == RunLength(spec, 1)
             as_u8 == count % (U8Max + 1)
             rest == parse_springs(SubSeq(spec, count + 1, Len(spec)))
         IN IF chr \notin {"?", ".", "#"} \/ rest.panic
            THEN [panic |-> TRUE, springs |-> <<>>]
            ELSE [panic |-> FALSE,
                  springs |-> <<(CASE chr = "?" -> Unknown(as_u8)
                                   [] chr = "." -> Operational(as_u8)
                                   [] chr = "#" -> Damaged(as_u8))>>
                              \o rest.springs]

Digits == <<"0", "1", "2", "3", "4", "5", "6", "7", "8", "9">>

IsDigit(c) == \E d \in 1..10 : Digits[d] = c
DigitValue(c) == (CHOOSE d \in 1..10 : Digits[d] = c) - 1

\* digits of a u8, most significant first: [ok, val]; not ok when a
\* character is not a digit or the value exceeds u8::MAX
RECURSIVE ParseDigits(_, _)
ParseDigits(s, acc) ==
    IF s = <<>> THEN [ok |-> TRUE, val |-> acc]
    ELSE IF ~IsDigit(s[1]) THEN [ok |-> FALSE, val |-> 0]
    ELSE LET next == acc * 10 + DigitValue(s[1])
         IN IF next > U8Max THEN [ok |-> FALSE, val |-> 0]
            ELSE ParseDigits(Tail(s), next)

\* str::parse::<u8>: an optional '+' followed by at least one digit
ParseU8(num) ==
    IF num = <<>> THEN [ok |-> FALSE, val |-> 0]
    ELSE IF num[1] = "+"
    THEN (IF Len(num) = 1 THEN [ok |-> FALSE, val |-> 0]
          ELSE ParseDigits(Tail(num), 0))
    ELSE ParseDigits(num, 0)

RECURSIVE FilterMapParse(_)
\* .filter_map(|num| num.parse().ok()).collect()
FilterMapParse(items) ==
    IF items = <<>> THEN <<>>
    ELSE LET r == ParseU8(items[1])
         IN (IF r.ok THEN <<r.val>> ELSE <<>>) \o FilterMapParse(Tail(items))

parse_damaged_counts(spec) == FilterMapParse(Split(spec, ","))

\* mutant: a line without a space is read as a spec with no counts
parse_line_or_no_counts(l) ==
    LET sp == IF IndexFrom(l, " ", 1) = 0 THEN Len(l) + 1
              ELSE IndexFrom(l, " ", 1)
        spring_spec == SubSeq(l, 1, sp - 1)
        damaged_counts_spec == SubSeq(l, sp + 1, Len(l))
        springs == parse_springs(spring_spec)
    IN IF springs.panic
       THEN [panic |-> TRUE, row |-> ConditionRow(<<>>, <<>>)]
       ELSE [panic |-> FALSE,
             row |-> ConditionRow(springs.springs,
                                  parse_damaged_counts(damaged_counts_spec))]

\* fn parse_line: [panic, row]; panics on a line without a space (unwrap)
\* and on a character that is not a spring (unreachable!())
parse_line(l) ==
    LET sp == IndexFrom(l, " ", 1)
        spring_spec == SubSeq(l, 1, sp - 1)
        damaged_counts_spec == SubSeq(l, sp + 1, Len(l))
        springs == parse_springs(spring_spec)
    IN IF sp = 0 \/ springs.panic
       THEN [panic |-> TRUE, row |-> ConditionRow(<<>>, <<>>)]
       ELSE [panic |-> FALSE,
             row |-> ConditionRow(springs.springs,
                                  parse_damaged_counts(damaged_counts_spec))]

----------------------------------------------------------------------------
(* count_permutations: the body of `while let Some(current) = to_visit.pop()` *)

None == -1

has_unknown(current) ==
    \E i \in 1..Len(current.springs) : is_unknown(current.springs[i])

RECURSIVE actual_counts(_)
\* the sizes of the Damaged groups, in order
actual_counts(springs) ==
    IF springs = <<>> THEN <<>>
    ELSE (IF is_damaged(springs[1]) THEN <<value(springs[1])>> ELSE <<>>)
         \o actual_counts(Tail(springs))

\* mutant: compares the number of groups only
ResolvedCountByLength(current) ==
    IF Len(actual_counts(current.springs)) = Len(current.damaged_counts)
    THEN 1 ELSE 0

\* mutant: a matching row adds its number of damaged groups plus one
ResolvedCountWeighted(current) ==
    IF actual_counts(current.springs) = current.damaged_counts
    THEN Len(current.damaged_counts) + 1 ELSE 0

\* what a row without Unknown groups adds to permutations
ResolvedCount(current) ==
    IF actual_counts(current.springs) = current.damaged_counts THEN 1 ELSE 0

NoPush == [panic |-> FALSE, pushes |-> <<>>]
PanicPush == [panic |-> TRUE, pushes |-> <<>>]

\* to_visit.push(d) for a decide result d, after the pushes in acc
PushDecided(acc, d) ==
    IF acc.panic \/ d.panic THEN PanicPush
    ELSE [panic |-> FALSE, pushes |-> Append(acc.pushes, d.row)]

\* current.decide(start_pos, Damaged(expected_count))
\*        .decide(start_pos + expected_count, Operational(1))
PlaceDamagedThenOperational(current, start_pos, expected_count, after) ==
    LET first == decide(current, start_pos, Damaged(expected_count))
    IN IF first.panic THEN first
       ELSE decide(first.row, after, Operational(1))

\* the arm (Operational(_), Some(start_pos)) of the match
UndecidedBranches(current, start_pos, spring_index, expected_count, has_damaged, starts_with_damaged) ==
    LET non_op_length == U8Sub(spring_index, start_pos)
    IN IF non_op_length = Overflow THEN PanicPush
       ELSE IF non_op_length < expected_count /\ ~has_damaged
       THEN PushDecided(NoPush,
                        decide(current, start_pos, Operational(non_op_length)))
       ELSE IF non_op_length >= expected_count
       THEN LET after == U8Add(start_pos, expected_count)
                next == spring_at(current, after)
                placed ==
                    IF after = Overflow \/ next.panic THEN PanicPush
                    ELSE IF ~next.found
                    THEN PushDecided(NoPush,
                             decide(current, start_pos, Damaged(expected_count)))
                    ELSE IF is_damaged(next.group) THEN NoPush
                    ELSE PushDecided(NoPush,
                             PlaceDamagedThenOperational(current, start_pos,
                                                         expected_count, after))
            IN IF placed.panic THEN PanicPush
               ELSE IF ~starts_with_damaged
               THEN PushDecided(placed,
                                decide(current, start_pos, Operational(1)))
               ELSE placed
       ELSE NoPush

ScanState(count_index, spring_index, start, starts_with_damaged, has_damaged) ==
    [count_index |-> count_index, spring_index |-> spring_index,
     non_operational_group_start |-> start,
     starts_with_damaged |-> starts_with_damaged, has_damaged |-> has_damaged]

\* `for spring_group in [current.springs, [Operational(1)]].concat()`:
\* the rows pushed onto to_visit by one iteration of the while loop
RECURSIVE ScanGroups(_, _, _, _)
ScanGroups(current, groups, i, s) ==
    IF i > Len(groups) THEN NoPush
    ELSE
    LET spring_group == groups[i]
        n == value(spring_group)
        \* 0-based count_index; unwrap_or(&0)
        expected_count ==
            IF s.count_index < Len(current.damaged_counts)
            THEN current.damaged_counts[s.count_index + 1] ELSE 0
        start == s.non_operational_group_start
        advanced == U8Add(s.spring_index, n)
    IN IF is_operational(spring_group) /\ start # None
       THEN UndecidedBranches(current, start, s.spring_index, expected_count,
                              s.has_damaged, s.starts_with_damaged)
       ELSE IF is_damaged(spring_group) /\ start = None /\ n > expected_count
       THEN NoPush
       ELSE IF advanced = Overflow THEN PanicPush
       ELSE IF is_operational(spring_group)
       THEN ScanGroups(current, groups, i + 1,
                       [s EXCEPT !.spring_index = advanced])
       ELSE IF is_damaged(spring_group) /\ start = None /\ n = expected_count
       THEN ScanGroups(current, groups, i + 1,
                       [s EXCEPT !.count_index = s.count_index + 1,
                                 !.spring_index = advanced])
       ELSE IF is_damaged(spring_group) /\ start = None
       THEN ScanGroups(current, groups, i + 1,
                       ScanState(s.count_index, advanced, s.spring_index,
                                 TRUE, TRUE))
       ELSE IF is_unknown(spring_group) /\ start = None
       THEN ScanGroups(current, groups, i + 1,
                       ScanState(s.count_index, advanced, s.spring_index,
                                 FALSE, FALSE))
       ELSE IF is_damaged(spring_group)
       THEN ScanGroups(current, groups, i + 1,
                       [s EXCEPT !.has_damaged = TRUE,
                                 !.spring_index = advanced])
       ELSE ScanGroups(current, groups, i + 1,
                       [s EXCEPT !.spring_index = advanced])

Branches(current) ==
    ScanGroups(current, current.springs \o <<Operational(1)>>, 1,
               ScanState(0, 0, None, FALSE, FALSE))

----------------------------------------------------------------------------
(* Actions of count_permutations *)

\* mutant: the row is moved into the call
CountFrameTakesRow ==
    /\ row' = ConditionRow(<<>>, <<>>)
    /\ UNCHANGED <<overflow_checks, caller, line, repeats, result, rows, idx,
                   total, OtherVars>>

CountFrame == UNCHANGED <<overflow_checks, caller, line, row, repeats, result,
                          rows, idx, total, OtherVars>>

\* the state after lines 210-214
EnterCount(r) ==
    /\ to_visit = <<r>>
    /\ visited = {}
    /\ permutations = 0

\* popped row already in visited: `continue`
VisitSkip ==
    /\ pc = "count"
    /\ to_visit # <<>>
    /\ Last(to_visit).springs \in visited
    /\ to_visit' = Front(to_visit)
    /\ UNCHANGED <<pc, visited, permutations>>
    /\ CountFrame

\* popped row has no Unknown group
VisitResolved ==
    /\ pc = "count"
    /\ to_visit # <<>>
    /\ LET current == Last(to_visit)
       IN /\ current.springs \notin visited
          /\ ~has_unknown(current)
          /\ visited' = visited \cup {current.springs}
          /\ permutations' = permutations + ResolvedCount(current)
    /\ to_visit' = Front(to_visit)
    /\ UNCHANGED pc
    /\ CountFrame

\* popped row has an Unknown group: push the rows that decide it
VisitUndecided ==
    /\ pc = "count"
    /\ to_visit # <<>>
    /\ LET current == Last(to_visit)
           b == Branches(current)
       IN /\ current.springs \notin visited
          /\ has_unknown(current)
          /\ ~b.panic
          /\ visited' = visited \cup {current.springs}
          /\ to_visit' = Front(to_visit) \o b.pushes
    /\ UNCHANGED <<pc, permutations>>
    /\ CountFrame

\* a decide called for the popped row panics (assert_eq! or u8 overflow)
VisitPanic ==
    /\ pc = "count"
    /\ to_visit # <<>>
    /\ LET current == Last(to_visit)
       IN /\ current.springs \notin visited
          /\ has_unknown(current)
          /\ Branches(current).panic
          /\ visited' = visited \cup {current.springs}
    /\ to_visit' = Front(to_visit)
    /\ pc' = "panicked"
    /\ UNCHANGED permutations
    /\ CountFrame

\* the worklist is empty: return permutations
CountReturn ==
    /\ pc = "count"
    /\ to_visit = <<>>
    /\ pc' = "returned"
    /\ UNCHANGED <<to_visit, visited, permutations>>
    /\ CountFrame

\* one pass through the body of the while loop, on the locals as a record
CountStep(s) ==
    LET current == Last(s.to_visit)
    IN IF current.springs \in s.visited
       THEN [s EXCEPT !.to_visit = Front(s.to_visit)]
       ELSE IF ~has_unknown(current)
       THEN [s EXCEPT !.to_visit = Front(s.to_visit),
                      !.visited = s.visited \cup {current.springs},
                      !.permutations = s.permutations + ResolvedCount(current)]
       ELSE IF Branches(current).panic
       THEN [s EXCEPT !.to_visit = Front(s.to_visit),
                      !.visited = s.visited \cup {current.springs},
                      !.panic = TRUE]
       ELSE [s EXCEPT !.to_visit = Front(s.to_visit) \o Branches(current).pushes,
                      !.visited = s.visited \cup {current.springs}]

RECURSIVE CountLoop(_)
CountLoop(s) ==
    IF s.panic \/ s.to_visit = <<>> THEN s ELSE CountLoop(CountStep(s))

\* fn count_permutations as a function of its argument: the locals when it
\* returns (permutations is the value returned) or panics
count_permutations(r) ==
    CountLoop([to_visit |-> <<r>>, visited |-> {}, permutations |-> 0,
               panic |-> FALSE])

----------------------------------------------------------------------------
(* Inputs *)

SeqsUpTo(S, n) == UNION {[1..m -> S] : m \in 0..n}

SpringChars == {"?", ".", "#"}

\* every row of at most MaxCells cells with maximal runs, and every list of
\* at most MaxGroups positive counts up to MaxCount
WellFormedRows ==
    {ConditionRow(parse_springs(spec).springs, counts) :
        spec \in SeqsUpTo(SpringChars, MaxCells),
        counts \in SeqsUpTo(1..MaxCount, MaxGroups)}

NoRow == ConditionRow(<<>>, <<>>)

\* the operations of OtherVars have not been called
OtherIdle ==
    /\ renormalized = NoRow
    /\ input = <<>>
    /\ parsed = <<>>
    /\ cards = <<>>
    /\ hand_type = "none"
    /\ id_range = <<>>
    /\ section = <<>>
    /\ new_id_ranges = <<>>
    /\ DecideIdle
    /\ Day8Idle

----------------------------------------------------------------------------
(* Specification of one call count_permutations(&row) *)

Init ==
    /\ overflow_checks \in BOOLEAN
    /\ OtherIdle
    /\ pc = "count"
    /\ caller = "count_permutations"
    /\ line = <<>>
    /\ row \in WellFormedRows
    /\ repeats = 1
    /\ result = NoRow
    /\ rows = <<>>
    /\ idx = 0
    /\ total = 0
    /\ EnterCount(row)

Next ==
    \/ VisitSkip
    \/ VisitResolved
    \/ VisitUndecided
    \/ VisitPanic
    \/ CountReturn

Spec == Init /\ [][Next]_vars

----------------------------------------------------------------------------
(* Reference definitions for the properties: arrangements by enumeration *)

RECURSIVE CellsOf(_)
\* the row cell by cell
CellsOf(springs) ==
    IF springs = <<>> THEN <<>>
    ELSE [i \in 1..value(springs[1]) |-> springs[1].type] \o CellsOf(Tail(springs))

UnknownCells(cells) == {i \in 1..Len(cells) : cells[i] = "Unknown"}

\* cells with the Unknown ones replaced as the assignment a says
Resolve(cells, a) ==
    [i \in 1..Len(cells) |-> IF cells[i] = "Unknown" THEN a[i] ELSE cells[i]]

RECURSIVE DamagedRuns(_, _, _)
\* lengths of the maximal blocks of Damaged cells from position i on,
\* run being the length of the block that ends just before i
DamagedRuns(cells, i, run) ==
    IF i > Len(cells) THEN (IF run > 0 THEN <<run>> ELSE <<>>)
    ELSE IF cells[i] = "Damaged" THEN DamagedRuns(cells, i + 1, run + 1)
    ELSE (IF run > 0 THEN <<run>> ELSE <<>>) \o DamagedRuns(cells, i + 1, 0)

\* number of the 2^u assignments whose damaged runs are damaged_counts
Arrangements(r) ==
    LET cells == CellsOf(r.springs)
    IN Cardinality({a \in [UnknownCells(cells) -> {"Operational", "Damaged"}] :
                       DamagedRuns(Resolve(cells, a), 1, 0) = r.damaged_counts})

UnknownCount(r) == Cardinality(UnknownCells(CellsOf(r.springs)))

RECURSIVE Pow2(_)
Pow2(n) == IF n = 0 THEN 1 ELSE 2 * Pow2(n - 1)

----------------------------------------------------------------------------
(* Properties *)

\* C1: count_permutations(row) equals the number of assignments of
\* Operational/Damaged to the Unknown cells whose damaged runs are exactly
\* damaged_counts, as found by enumerating all 2^u assignments.
C1_CountIsArrangements ==
    (caller = "count_permutations" /\ pc = "returned")
        => permutations = Arrangements(row)

\* C4: for a row without Unknown runs, count_permutations returns 1 if the
\* list of its Damaged run lengths equals damaged_counts and 0 otherwise.
C4_ResolvedRowCount ==
    (caller = "count_permutations" /\ pc # "count" /\ ~has_unknown(row))
        => /\ pc = "returned"
           /\ permutations =
                  IF DamagedRuns(CellsOf(row.springs), 1, 0) = row.damaged_counts
                  THEN 1 ELSE 0

C4_Witness ==
    /\ caller = "count_permutations"
    /\ pc = "returned"
    /\ ~has_unknown(row)
    /\ Len(row.damaged_counts) = 2
    /\ permutations = 1

\* C5: count_permutations never panics on a well-formed row (assert_eq! in
\* decide, u8 arithmetic, unwrap), and returns 0 when no assignment of the
\* Unknown cells matches damaged_counts.
C5_CountNeverPanics ==
    caller = "count_permutations"
        => /\ pc # "panicked"
           /\ (pc = "returned" /\ Arrangements(row) = 0) => permutations = 0

\* C6: the value count_permutations returns is between 0 and 2^u, u being
\* the number of cells in Unknown runs of the row.
C6_CountWithinBound ==
    (caller = "count_permutations" /\ pc = "returned")
        => /\ 0 <= permutations
           /\ permutations <= Pow2(UnknownCount(row))

C6_Witness ==
    /\ caller = "count_permutations"
    /\ pc = "returned"
    /\ UnknownCount(row) >= 2
    /\ permutations >= 2

----------------------------------------------------------------------------
(* sum_permutations and sum_exploded_permutations *)

SumCallers == {"sum_permutations", "sum_exploded_permutations"}

\* mutant: the visited set outlives the call
SumNextRowKeepVisited ==
    /\ pc = "sum"
    /\ idx <= Len(rows)
    /\ LET arg == IF caller = "sum_permutations"
                  THEN [panic |-> FALSE, row |-> rows[idx]]
                  ELSE explode(rows[idx], ExplodeFactor)
       IN IF arg.panic
          THEN /\ pc' = "panicked"
               /\ UNCHANGED <<row, to_visit, visited, permutations>>
          ELSE /\ pc' = "count"
               /\ row' = arg.row
               /\ to_visit' = <<arg.row>>
               /\ visited' = visited
               /\ permutations' = 0
    /\ UNCHANGED <<overflow_checks, caller, line, repeats, result, rows, idx,
                   total>>
    /\ UNCHANGED OtherVars

\* the iterator reaches rows[idx]: the closure calls count_permutations on
\* the row, or on row.explode(5)
SumNextRow ==
    /\ pc = "sum"
    /\ idx <= Len(rows)
    /\ LET arg == IF caller = "sum_permutations"
                  THEN [panic |-> FALSE, row |-> rows[idx]]
                  ELSE explode(rows[idx], ExplodeFactor)
       IN IF arg.panic
          THEN /\ pc' = "panicked"
               /\ UNCHANGED <<row, to_visit, visited, permutations>>
          ELSE /\ pc' = "count"
               /\ row' = arg.row
               /\ to_visit' = <<arg.row>>
               /\ visited' = {}
               /\ permutations' = 0
    /\ UNCHANGED <<overflow_checks, caller, line, repeats, result, rows, idx,
                   total>>
    /\ UNCHANGED OtherVars

\* mutant: the running total is replaced by the value returned
SumAccumulateOverwrites ==
    /\ pc = "returned"
    /\ caller \in SumCallers
    /\ total' = permutations
    /\ idx' = idx + 1
    /\ pc' = "sum"
    /\ UNCHANGED <<overflow_checks, caller, line, row, repeats, result, rows,
                   to_visit, visited, permutations>>
    /\ UNCHANGED OtherVars

\* count_permutations returned: .sum() adds the value, the iterator advances
SumAccumulate ==
    /\ pc = "returned"
    /\ caller \in SumCallers
    /\ total' = total + permutations
    /\ idx' = idx + 1
    /\ pc' = "sum"
    /\ UNCHANGED <<overflow_checks, caller, line, row, repeats, result, rows,
                   to_visit, visited, permutations>>
    /\ UNCHANGED OtherVars

\* the iterator is exhausted: the sum is returned
SumReturn ==
    /\ pc = "sum"
    /\ idx > Len(rows)
    /\ pc' = "summed"
    /\ UNCHANGED <<overflow_checks, caller, line, row, repeats, result, rows,
                   idx, total, to_visit, visited, permutations>>
    /\ UNCHANGED OtherVars

\* tests::example_condition_rows
example_condition_rows ==
    << ConditionRow(<<Unknown(3), Operational(1), Damaged(3)>>, <<1, 1, 3>>),
       ConditionRow(<<Operational(1), Unknown(2), Operational(2), Unknown(2),
                      Operational(3), Unknown(1), Damaged(2), Operational(1)>>,
                    <<1, 1, 3>>),
       ConditionRow(<<Unknown(1), Damaged(1), Unknown(1), Damaged(1),
                      Unknown(1), Damaged(1), Unknown(1), Damaged(1),
                      Unknown(1), Damaged(1), Unknown(1), Damaged(1),
                      Unknown(1), Damaged(1), Unknown(1)>>,
                    <<1, 3, 1, 6>>),
       ConditionRow(<<Unknown(4), Operational(1), Damaged(1), Operational(3),
                      Damaged(1), Operational(3)>>,
                    <<4, 1, 1>>),
       ConditionRow(<<Unknown(4), Operational(1), Damaged(6), Operational(2),
                      Damaged(5), Operational(1)>>,
                    <<1, 6, 5>>),
       ConditionRow(<<Unknown(1), Damaged(3), Unknown(8)>>, <<3, 2, 1>>) >>

\* the two further rows of tests::can_count_permutations
extra_test_rows ==
    << ConditionRow(<<Damaged(1), Unknown(2), Operational(1), Unknown(3),
                      Operational(2), Unknown(1)>>, <<1, 1, 1>>),
       ConditionRow(<<Damaged(1), Unknown(1), Damaged(1), Operational(1),
                      Unknown(3), Operational(2), Unknown(1)>>, <<1, 1, 1>>) >>

\* The tests: count_permutations on one of the test rows, or one of the
\* two sums over the first rows of example_condition_rows (all six in the
\* tests)
InitExamples ==
    /\ overflow_checks \in BOOLEAN
    /\ OtherIdle
    /\ line = <<>>
    /\ repeats = ExplodeFactor
    /\ result = NoRow
    /\ total = 0
    /\ \/ /\ caller = "count_permutations"
          /\ pc = "count"
          /\ rows = <<>>
          /\ idx = 0
          /\ \E i \in 1..(Len(example_condition_rows) + Len(extra_test_rows)) :
                row = (example_condition_rows \o extra_test_rows)[i]
          /\ EnterCount(row)
       \/ /\ caller \in SumCallers
          /\ pc = "sum"
          /\ \E n \in 0..Len(example_condition_rows) :
                rows = SubSeq(example_condition_rows, 1, n)
          /\ idx = 1
          /\ row = NoRow
          /\ to_visit = <<>>
          /\ visited = {}
          /\ permutations = 0

NextExamples ==
    \/ VisitSkip
    \/ VisitResolved
    \/ VisitUndecided
    \/ VisitPanic
    \/ CountReturn
    \/ SumNextRow
    \/ SumAccumulate
    \/ SumReturn

SpecExamples == InitExamples /\ [][NextExamples]_vars

\* the counts tests::can_count_permutations expects for example_condition_rows
ExpectedCounts == <<1, 4, 1, 1, 4, 10>>

\* C2: count_permutations returns 1, 4, 1, 1, 4 and 10 for the six example
\* rows, and sum_permutations over the six rows returns 21.
C2_ExampleCounts ==
    /\ (\/ caller = "count_permutations" /\ row \in Range(example_condition_rows)
        \/ caller = "sum_permutations" /\ rows = example_condition_rows)
           => pc # "panicked"
    /\ (caller = "count_permutations" /\ pc = "returned")
           => \A i \in 1..Len(example_condition_rows) :
                  row = example_condition_rows[i]
                      => permutations = ExpectedCounts[i]
    /\ (caller = "sum_permutations" /\ rows = example_condition_rows)
           => (pc = "summed" => total = 21)

\* C3: sum_exploded_permutations over the six example rows, each unfolded
\* with explode(5), returns 525152.
C3_ExplodedSum ==
    (caller = "sum_exploded_permutations" /\ rows = example_condition_rows)
        => /\ pc # "panicked"
           /\ pc = "summed" => total = 525152

----------------------------------------------------------------------------
(* Specification of parse_line and explode *)

LineChars == SpringChars \cup {" ", ",", "1", "2", "x"}

\* a spring specification of u8::MAX + 1 equal characters, whose length
\* `group.count() as u8` truncates
LongLines ==
    {[i \in 1..(U8Max + 1) |-> c] \o <<" ", "1">> : c \in SpringChars}

\* lines with a count of u8::MAX + 1, which `num.parse::<u8>()` refuses
BigCountLines ==
    {<<c, " ">> \o pre \o <<"2", "5", "6">> :
        c \in SpringChars, pre \in {<<>>, <<"1", ",">>}}

Lines == SeqsUpTo(LineChars, MaxLineLen) \cup LongLines \cup BigCountLines

\* run lengths of directly constructed rows: small ones, and half the u8
\* range, which two merged runs take past u8::MAX
RunLens == (1..MaxRunLen) \cup {(U8Max + 1) \div 2}

SpringConditions ==
    {[type |-> t, n |-> n] : t \in {"Operational", "Damaged", "Unknown"},
                             n \in RunLens}

MaximalRuns(springs) ==
    /\ \A i \in 1..Len(springs) : value(springs[i]) >= 1
    /\ \A i \in 1..(Len(springs) - 1) : ~same_type(springs[i], springs[i + 1])

\* rows built with ConditionRow::new, as the tests do
ConstructedRows ==
    {ConditionRow(springs, counts) :
        springs \in {v \in SeqsUpTo(SpringConditions, MaxRuns) : MaximalRuns(v)},
        counts \in SeqsUpTo(1..MaxCount, MaxGroups)}

InitExplode ==
    /\ overflow_checks \in BOOLEAN
    /\ OtherIdle
    /\ repeats \in 0..MaxRepeats
    /\ result = NoRow
    /\ rows = <<>>
    /\ idx = 0
    /\ total = 0
    /\ to_visit = <<>>
    /\ visited = {}
    /\ permutations = 0
    /\ \/ /\ caller = "parse_line"
          /\ pc = "parse_line"
          /\ line \in Lines
          /\ row = NoRow
       \/ /\ caller = "ConditionRow::new"
          /\ pc = "explode"
          /\ line = <<>>
          /\ row \in ConstructedRows

ExplodeFrame == UNCHANGED <<overflow_checks, caller, line, repeats, rows, idx,
                            total, to_visit, visited, permutations, OtherVars>>

\* parse_line(line) returns the row
ParseLine ==
    /\ pc = "parse_line"
    /\ ~parse_line(line).panic
    /\ row' = parse_line(line).row
    /\ pc' = "explode"
    /\ UNCHANGED result
    /\ ExplodeFrame

\* parse_line(line) panics: no space (unwrap) or a character that is not a
\* spring (unreachable!())
ParseLinePanic ==
    /\ pc = "parse_line"
    /\ parse_line(line).panic
    /\ pc' = "parse_panicked"
    /\ UNCHANGED <<row, result>>
    /\ ExplodeFrame

\* row.explode(repeats) returns the unfolded row
Explode ==
    /\ pc = "explode"
    /\ ~explode(row, repeats).panic
    /\ result' = explode(row, repeats).row
    /\ pc' = "exploded"
    /\ UNCHANGED row
    /\ ExplodeFrame

\* row.explode(repeats) panics: a merged run length overflows the u8
ExplodePanic ==
    /\ pc = "explode"
    /\ explode(row, repeats).panic
    /\ pc' = "panicked"
    /\ UNCHANGED <<row, result>>
    /\ ExplodeFrame

NextExplode ==
    \/ ParseLine
    \/ ParseLinePanic
    \/ Explode
    \/ ExplodePanic

SpecExplode == InitExplode /\ [][NextExplode]_vars

\* explode has been called on row and has returned or panicked
ExplodeCalled == pc \in {"exploded", "panicked"}

RECURSIVE JoinedCells(_, _)
\* k copies of cells with one Unknown cell between consecutive copies
JoinedCells(cells, k) ==
    IF k <= 1 THEN cells
    ELSE JoinedCells(cells, k - 1) \o <<"Unknown">> \o cells

RECURSIVE TotalLength(_)
TotalLength(springs) ==
    IF springs = <<>> THEN 0
    ELSE value(springs[1]) + TotalLength(Tail(springs))

\* C7: for k >= 1, explode(k) returns a row whose cells are k copies of the
\* original cells joined by a single Unknown cell, with adjacent equal-state
\* runs merged, and whose damaged_counts is the original list k times.
C7_ExplodeShape ==
    (ExplodeCalled /\ repeats >= 1)
        => /\ pc = "exploded"
           /\ CellsOf(result.springs) = JoinedCells(CellsOf(row.springs), repeats)
           /\ MaximalRuns(result.springs)
           /\ result.damaged_counts = Repeat(row.damaged_counts, repeats)

\* C8: for a row produced by parse_line, explode(1) returns a row with the
\* same run sequence and the same damaged_counts.
C8_ExplodeOnceIsIdentity ==
    (caller = "parse_line" /\ ExplodeCalled /\ repeats = 1)
        => /\ pc = "exploded"
           /\ result.springs = row.springs
           /\ result.damaged_counts = row.damaged_counts

C8_Witness ==
    /\ caller = "parse_line"
    /\ pc = "exploded"
    /\ repeats = 1
    /\ Len(row.springs) >= 2
    /\ row.damaged_counts # <<>>
    /\ result = row

\* C9: for k >= 1, the sum of the run lengths of explode(k) is k times the
\* sum of the run lengths of the row, plus k - 1.
C9_ExplodeLength ==
    (ExplodeCalled /\ repeats >= 1)
        => /\ pc = "exploded"
           /\ TotalLength(result.springs)
                  = repeats * TotalLength(row.springs) + (repeats - 1)

\* C10 as stated: explode called with k = 0 fails instead of returning a row.
C10_ExplodeZeroFails ==
    (ExplodeCalled /\ repeats = 0) => pc = "panicked"

\* C10 amended: explode called with k = 0 does not fail; it returns a row
\* with the run sequence of the original row and an empty damaged_counts.
C10_ExplodeZeroReturnsNoCounts ==
    (ExplodeCalled /\ repeats = 0)
        => /\ pc = "exploded"
           /\ result.springs = row.springs
           /\ result.damaged_counts = <<>>

C10_Witness ==
    /\ pc = "exploded"
    /\ repeats = 0
    /\ row.springs # <<>>
    /\ row.damaged_counts # <<>>
    /\ result.damaged_counts = <<>>

\* C11: every ConditionRow returned by parse_line, by explode and by decide,
\* including every row on to_visit during count_permutations, has maximal
\* runs: no two adjacent runs of the same state, every run of length >= 1.
C11_MaximalRunInvariant ==
    /\ (caller = "parse_line" /\ pc \in {"explode", "exploded", "panicked"})
           => MaximalRuns(row.springs)
    /\ pc = "exploded" => MaximalRuns(result.springs)
    /\ \A i \in 1..Len(to_visit) : MaximalRuns(to_visit[i].springs)

----------------------------------------------------------------------------
(* Merge-normalisation: decide(0, Operational(0)), the call explode ends
   with, applied to a row and then to its own result. *)

MaxNormRuns == 3

\* rows built with ConditionRow::new from any run sequence, adjacent runs of
\* the same state included, with at most one count
UnnormalizedRows ==
    {ConditionRow(springs, counts) :
        springs \in SeqsUpTo(SpringConditions, MaxNormRuns),
        counts \in SeqsUpTo(1..MaxCount, 1)}

normalize(self) == decide(self, 0, Operational(0))

InitNormalize ==
    /\ overflow_checks \in BOOLEAN
    /\ OtherIdle
    /\ caller = "ConditionRow::new"
    /\ pc = "normalize"
    /\ line = <<>>
    /\ row \in UnnormalizedRows
    /\ repeats = 0
    /\ result = NoRow
    /\ rows = <<>>
    /\ idx = 0
    /\ total = 0
    /\ to_visit = <<>>
    /\ visited = {}
    /\ permutations = 0

NormalizeFrame ==
    UNCHANGED <<overflow_checks, caller, line, row, repeats, rows, idx, total,
                to_visit, visited, permutations, input, parsed, cards,
                hand_type, id_range, section, new_id_ranges, DecideVars,
                Day8Vars>>

\* row.decide(0, Operational(0)) returns the merged row
Normalize ==
    /\ pc = "normalize"
    /\ ~normalize(row).panic
    /\ result' = normalize(row).row
    /\ pc' = "normalized"
    /\ UNCHANGED renormalized
    /\ NormalizeFrame

\* row.decide(0, Operational(0)) panics: a merged run length overflows the u8
NormalizePanic ==
    /\ pc = "normalize"
    /\ normalize(row).panic
    /\ pc' = "panicked"
    /\ UNCHANGED <<result, renormalized>>
    /\ NormalizeFrame

\* the returned row is normalised again
NormalizeAgain ==
    /\ pc = "normalized"
    /\ renormalized' = normalize(result).row
    /\ pc' = IF normalize(result).panic THEN "panicked" ELSE "renormalized"
    /\ UNCHANGED result
    /\ NormalizeFrame

NextNormalize ==
    \/ Normalize
    \/ NormalizePanic
    \/ NormalizeAgain

SpecNormalize == InitNormalize /\ [][NextNormalize]_vars

\* C12: merge-normalisation is idempotent: normalising the row returned by
\* decide(0, Operational(0)) again succeeds and returns that same row.
C12_NormalizeIdempotent ==
    /\ pc = "renormalized" => renormalized = result
    /\ pc = "panicked" => result = NoRow

\* a row with adjacent runs of the same state was merged, and normalised again
C12_Witness ==
    /\ pc = "renormalized"
    /\ Len(row.springs) = MaxNormRuns
    /\ Len(result.springs) = MaxNormRuns - 1
    /\ result.damaged_counts # <<>>

----------------------------------------------------------------------------
(* What a line says, read independently of parse_line *)

CellChar(t) ==
    CASE t = "Operational" -> "." [] t = "Damaged" -> "#" [] t = "Unknown" -> "?"

\* the runs written out cell by cell
SpringsText(springs) ==
    [i \in 1..Len(CellsOf(springs)) |-> CellChar(CellsOf(springs)[i])]

\* the k-th smallest element of a set of integers
NthSmallest(S, k) == CHOOSE x \in S : Cardinality({y \in S : y < x}) = k - 1

\* the items of a comma-separated list
ListItems(s) ==
    LET cuts == {0} \cup {i \in 1..Len(s) : s[i] = ","} \cup {Len(s) + 1}
    IN [k \in 1..(Cardinality(cuts) - 1) |->
           SubSeq(s, NthSmallest(cuts, k) + 1, NthSmallest(cuts, k + 1) - 1)]

IsNumber(item) == item # <<>> /\ \A i \in 1..Len(item) : IsDigit(item[i])

RECURSIVE DecimalValue(_)
DecimalValue(item) ==
    IF item = <<>> THEN 0
    ELSE DecimalValue(Front(item)) * 10 + DigitValue(Last(item))

\* the line has the form <spec> <list> with a non-empty spec of spring
\* characters before its first space
HasSpecAndList(l) ==
    \E sp \in 2..Len(l) :
        l[sp] = " " /\ \A i \in 1..(sp - 1) : l[i] \in SpringChars

SpecOf(l) == SubSeq(l, 1, (CHOOSE sp \in 1..Len(l) : l[sp] = " "
                                   /\ \A i \in 1..(sp - 1) : l[i] # " ") - 1)

ListOf(l) == SubSeq(l, Len(SpecOf(l)) + 2, Len(l))

\* <spec> <counts> with counts a comma-separated list of positive integers
WellFormedLine(l) ==
    /\ HasSpecAndList(l)
    /\ \A k \in 1..Len(ListItems(ListOf(l))) :
           /\ IsNumber(ListItems(ListOf(l))[k])
           /\ DecimalValue(ListItems(ListOf(l))[k]) >= 1

\* <spec> <list> where an item of the list is not a u8: not a number, empty,
\* or too large
HasUnparseableCount(l) ==
    /\ HasSpecAndList(l)
    /\ \E k \in 1..Len(ListItems(ListOf(l))) :
           \/ ~IsNumber(ListItems(ListOf(l))[k])
           \/ DecimalValue(ListItems(ListOf(l))[k]) > U8Max

ParseLineCalled == caller = "parse_line" /\ pc # "parse_line"

\* C13: for a line <spec> <counts> of spring characters and positive
\* integers, parse_line returns a row whose runs, written out cell by cell,
\* are the spec string and whose damaged_counts is the integer list in order.
C13_ParseLineFaithful ==
    (ParseLineCalled /\ WellFormedLine(line))
        => /\ pc # "parse_panicked"
           /\ SpringsText(row.springs) = SpecOf(line)
           /\ Len(row.damaged_counts) = Len(ListItems(ListOf(line)))
           /\ \A k \in 1..Len(row.damaged_counts) :
                  row.damaged_counts[k] = DecimalValue(ListItems(ListOf(line))[k])

\* C14: a line whose counts list holds an item that is not a number, is
\* empty or does not fit the count type makes parse_line fail.
C14_UnparseableCountRejected ==
    (ParseLineCalled /\ HasUnparseableCount(line)) => pc = "parse_panicked"

----------------------------------------------------------------------------
(* parse_input: input.lines().map(parse_line).collect() *)

MaxInputLen == 5

InputChars == {"?", " ", "1", "x", "\n"}

Inputs == SeqsUpTo(InputChars, MaxInputLen)

\* str::lines: the pieces between line feeds, without the empty piece after
\* a final line feed, each without a trailing carriage return
str_lines(s) ==
    LET pieces == Split(s, "\n")
        kept == IF Last(pieces) = <<>> THEN Front(pieces) ELSE pieces
    IN [i \in 1..Len(kept) |->
           IF kept[i] # <<>> /\ Last(kept[i]) = "\r" THEN Front(kept[i])
           ELSE kept[i]]

InitParseInput ==
    /\ overflow_checks \in BOOLEAN
    /\ caller = "parse_input"
    /\ pc = "parse_input"
    /\ input \in Inputs
    /\ parsed = <<>>
    /\ rows = <<>>
    /\ idx = 0
    /\ line = <<>>
    /\ row = NoRow
    /\ repeats = 0
    /\ result = NoRow
    /\ total = 0
    /\ to_visit = <<>>
    /\ visited = {}
    /\ permutations = 0
    /\ renormalized = NoRow
    /\ cards = <<>>
    /\ hand_type = "none"
    /\ id_range = <<>>
    /\ section = <<>>
    /\ new_id_ranges = <<>>
    /\ DecideIdle
    /\ Day8Idle

ParseInputFrame ==
    UNCHANGED <<overflow_checks, caller, input, line, row, repeats, result,
                total, to_visit, visited, permutations, renormalized, cards,
                hand_type, id_range, section, new_id_ranges, DecideVars,
                Day8Vars>>

\* the iterator yields the next line and parse_line returns its row
ParseInputLine ==
    /\ pc = "parse_input"
    /\ idx < Len(str_lines(input))
    /\ ~parse_line(str_lines(input)[idx + 1]).panic
    /\ parsed' = Append(parsed, parse_line(str_lines(input)[idx + 1]).row)
    /\ idx' = idx + 1
    /\ UNCHANGED <<pc, rows>>
    /\ ParseInputFrame

\* parse_line panics on the next line: the collected rows are dropped
ParseInputPanic ==
    /\ pc = "parse_input"
    /\ idx < Len(str_lines(input))
    /\ parse_line(str_lines(input)[idx + 1]).panic
    /\ pc' = "parse_panicked"
    /\ UNCHANGED <<parsed, idx, rows>>
    /\ ParseInputFrame

\* no line is left: collect() returns the rows
ParseInputReturn ==
    /\ pc = "parse_input"
    /\ idx = Len(str_lines(input))
    /\ rows' = parsed
    /\ pc' = "parsed"
    /\ UNCHANGED <<parsed, idx>>
    /\ ParseInputFrame

NextParseInput ==
    \/ ParseInputLine
    \/ ParseInputPanic
    \/ ParseInputReturn

SpecParseInput == InitParseInput /\ [][NextParseInput]_vars

\* the lines of a text: the stretches between line feeds, the empty stretch
\* after the last line feed excluded
LineSpans(s) ==
    {span \in (1..Len(s)) \X (0..Len(s)) :
        /\ span[1] <= span[2] + 1
        /\ span[1] = 1 \/ s[span[1] - 1] = "\n"
        /\ span[2] = Len(s) \/ s[span[2] + 1] = "\n"
        /\ \A i \in span[1]..span[2] : s[i] # "\n"}

\* no separating space, or a character that is not a spring before it
MalformedLine(l) ==
    \/ \A i \in 1..Len(l) : l[i] # " "
    \/ \E i \in 1..Len(l) :
          l[i] \notin SpringChars /\ \A j \in 1..i : l[j] # " "

HasMalformedLine(s) ==
    \E span \in LineSpans(s) : MalformedLine(SubSeq(s, span[1], span[2]))

\* C15: over an input with a line that has no separating space, or a cell
\* character outside '.', '#', '?', parse_input fails and yields no rows:
\* it never returns, a row parsed before the failure is not handed out, and
\* until it fails a line is left to read.
C15_MalformedInputYieldsNoRows ==
    /\ (caller = "parse_input" /\ HasMalformedLine(input))
           => pc \in {"parse_input", "parse_panicked"} /\ rows = <<>>
    /\ (caller = "parse_input" /\ pc = "parse_input" /\ HasMalformedLine(input))
           => idx < Len(str_lines(input))

\* a line was parsed, then a malformed line made parse_input fail
C15_Witness ==
    /\ caller = "parse_input"
    /\ pc = "parse_panicked"
    /\ parsed # <<>>
    /\ HasMalformedLine(input)

----------------------------------------------------------------------------
(* The two sums over any short list of small rows *)

MaxSumRows == 2
MaxSumCells == 2

\* the rows of the lines `<spec> 1` with at most MaxSumCells Unknown or
\* Damaged cells
SumRows ==
    {parse_line(spec \o <<" ", "1">>).row :
        spec \in SeqsUpTo({"?", "#"}, MaxSumCells)}

InitSums ==
    /\ overflow_checks \in BOOLEAN
    /\ OtherIdle
    /\ line = <<>>
    /\ repeats = ExplodeFactor
    /\ result = NoRow
    /\ total = 0
    /\ caller \in SumCallers
    /\ pc = "sum"
    /\ rows \in SeqsUpTo(SumRows, MaxSumRows)
    /\ idx = 1
    /\ row = NoRow
    /\ to_visit = <<>>
    /\ visited = {}
    /\ permutations = 0

SpecSums == InitSums /\ [][NextExamples]_vars

\* the argument of the idx-th call of count_permutations
CountArgument ==
    IF caller = "sum_permutations" THEN rows[idx]
    ELSE explode(rows[idx], ExplodeFactor).row

\* C16: count_permutations is deterministic and call-local: whatever rows
\* were counted before it in the sum, a call that returns returns the value
\* a call starting from a fresh worklist and visited set computes from its
\* argument alone.
C16_CountIsCallLocal ==
    (caller \in SumCallers /\ pc = "returned")
        => /\ row = CountArgument
           /\ ~count_permutations(row).panic
           /\ permutations = count_permutations(row).permutations
           /\ visited = count_permutations(row).visited

\* the same row with Unknown cells is counted a second time
C16_Witness ==
    /\ caller \in SumCallers
    /\ pc = "returned"
    /\ idx = 2
    /\ rows[1] = rows[2]
    /\ has_unknown(row)
    /\ permutations >= 1

\* C17: decide, explode and count_permutations leave their receiver as it
\* was: the rows handed to a sum never change (explode is called on them),
\* and the row being counted does not change while count_permutations, and
\* the decide calls it makes, run.
C17_ReceiverUnchanged ==
    [][rows' = rows /\ (pc = "count" => row' = row)]_vars

\* explode and count_permutations have run on a row, decide on three rows
C17_Witness ==
    /\ caller = "sum_exploded_permutations"
    /\ pc = "returned"
    /\ idx = 2
    /\ row = explode(rows[idx], ExplodeFactor).row
    /\ row # rows[idx]
    /\ Cardinality(visited) >= 3

\* the argument the closure of a sum passes to count_permutations for row r
SumArgument(r) ==
    IF caller = "sum_permutations" THEN [panic |-> FALSE, row |-> r]
    ELSE explode(r, ExplodeFactor)

RECURSIVE SumOfCounts(_)
\* the sum of count_permutations over the arguments, row by row
SumOfCounts(rs) ==
    IF rs = <<>> THEN [panic |-> FALSE, total |-> 0]
    ELSE LET arg == SumArgument(rs[1])
             rest == SumOfCounts(Tail(rs))
         IN IF arg.panic \/ count_permutations(arg.row).panic \/ rest.panic
            THEN [panic |-> TRUE, total |-> 0]
            ELSE [panic |-> FALSE,
                  total |-> count_permutations(arg.row).permutations + rest.total]

\* the lists that hold the rows of rs in another order
Reorderings(rs) ==
    {[i \in 1..Len(rs) |-> rs[p[i]]] :
        p \in {q \in [1..Len(rs) -> 1..Len(rs)] :
                   \A i, j \in 1..Len(rs) : q[i] = q[j] => i = j}}

\* C18: sum_permutations(rows) is the sum of count_permutations(row) over the
\* rows and sum_exploded_permutations(rows) the sum of
\* count_permutations(row.explode(5)); the rows in any other order give the
\* same sum.
C18_SumIsSumOfCounts ==
    (caller \in SumCallers /\ pc = "summed")
        => \A rs \in Reorderings(rows) :
              ~SumOfCounts(rs).panic /\ SumOfCounts(rs).total = total

\* two different rows with different positive counts were summed
C18_Witness ==
    /\ caller = "sum_permutations"
    /\ pc = "summed"
    /\ Len(rows) = 2
    /\ rows[1] # rows[2]
    /\ permutations >= 1
    /\ total > permutations
    /\ total # 2 * permutations

----------------------------------------------------------------------------
(* Day 7: calculate_hand_type *)

MaxNumber == 3
HandSize == 5

Joker == [card |-> "Joker", n |-> 0]
Number(n) == [card |-> "Number", n |-> n]
Jack == [card |-> "Jack", n |-> 0]
Queen == [card |-> "Queen", n |-> 0]
King == [card |-> "King", n |-> 0]
Ace == [card |-> "Ace", n |-> 0]

Card == {Joker, Jack, Queen, King, Ace} \cup {Number(n) : n \in 2..MaxNumber}

\* enum HandType, weakest first as derive(Ord) orders it
HandType ==
    <<"HighCard", "OnePair", "TwoPair", "ThreeOfAKind", "FullHouse",
      "FourOfAKind", "FiveOfAKind">>

\* cards.iter().counts()
counts(hand) ==
    [c \in Range(hand) |-> Cardinality({i \in 1..Len(hand) : hand[i] = c})]

\* mutant: two jokers beside a pair make a full house
calculate_hand_type_pair_of_jokers(hand) ==
    LET groups == counts(hand)
        distinct_count == Cardinality(DOMAIN groups)
        max_group == CHOOSE m \in {groups[c] : c \in DOMAIN groups} :
                         \A c \in DOMAIN groups : groups[c] <= m
        joker_count == IF Joker \in DOMAIN groups THEN groups[Joker] ELSE 0
        key == <<distinct_count, max_group>>
    IN CASE key = <<1, 5>> -> "FiveOfAKind"
         [] key = <<2, 4>> /\ joker_count = 0 -> "FourOfAKind"
         [] key = <<2, 4>> /\ joker_count # 0 -> "FiveOfAKind"
         [] key = <<2, 3>> /\ joker_count = 0 -> "FullHouse"
         [] key = <<2, 3>> /\ joker_count # 0 -> "FiveOfAKind"
         [] key = <<3, 3>> /\ joker_count = 0 -> "ThreeOfAKind"
         [] key = <<3, 3>> /\ joker_count # 0 -> "FourOfAKind"
         [] key = <<3, 2>> /\ joker_count = 0 -> "TwoPair"
         [] key = <<3, 2>> /\ joker_count = 1 -> "FullHouse"
         [] key = <<3, 2>> /\ joker_count = 2 -> "FullHouse"
         [] key = <<4, 2>> /\ joker_count = 0 -> "OnePair"
         [] key = <<4, 2>> /\ joker_count # 0 -> "ThreeOfAKind"
         [] key = <<5, 1>> /\ joker_count = 0 -> "HighCard"
         [] key = <<5, 1>> /\ joker_count = 1 -> "OnePair"
         [] OTHER -> "unreachable"

\* fn calculate_hand_type: the HandType, or "unreachable" for the last arm
calculate_hand_type(hand) ==
    LET groups == counts(hand)
        distinct_count == Cardinality(DOMAIN groups)
        max_group == CHOOSE m \in {groups[c] : c \in DOMAIN groups} :
                         \A c \in DOMAIN groups : groups[c] <= m
        joker_count == IF Joker \in DOMAIN groups THEN groups[Joker] ELSE 0
        key == <<distinct_count, max_group>>
    IN CASE key = <<1, 5>> -> "FiveOfAKind"
         [] key = <<2, 4>> /\ joker_count = 0 -> "FourOfAKind"
         [] key = <<2, 4>> /\ joker_count # 0 -> "FiveOfAKind"
         [] key = <<2, 3>> /\ joker_count = 0 -> "FullHouse"
         [] key = <<2, 3>> /\ joker_count # 0 -> "FiveOfAKind"
         [] key = <<3, 3>> /\ joker_count = 0 -> "ThreeOfAKind"
         [] key = <<3, 3>> /\ joker_count # 0 -> "FourOfAKind"
         [] key = <<3, 2>> /\ joker_count = 0 -> "TwoPair"
         [] key = <<3, 2>> /\ joker_count = 1 -> "FullHouse"
         [] key = <<3, 2>> /\ joker_count = 2 -> "FourOfAKind"
         [] key = <<4, 2>> /\ joker_count = 0 -> "OnePair"
         [] key = <<4, 2>> /\ joker_count # 0 -> "ThreeOfAKind"
         [] key = <<5, 1>> /\ joker_count = 0 -> "HighCard"
         [] key = <<5, 1>> /\ joker_count = 1 -> "OnePair"
         [] OTHER -> "unreachable"

\* the state of day 12
Day12Vars ==
    <<overflow_checks, line, row, repeats, result, rows, idx, total, to_visit,
      visited, permutations, renormalized, input, parsed>>

\* no operation of day 12 has been called
Day12Idle ==
    /\ overflow_checks = TRUE
    /\ line = <<>>
    /\ row = NoRow
    /\ repeats = 0
    /\ result = NoRow
    /\ rows = <<>>
    /\ idx = 0
    /\ total = 0
    /\ to_visit = <<>>
    /\ visited = {}
    /\ permutations = 0
    /\ renormalized = NoRow
    /\ input = <<>>
    /\ parsed = <<>>

InitHandType ==
    /\ Day12Idle
    /\ caller = "parse_hand"
    /\ pc = "calculate_hand_type"
    /\ cards \in [1..HandSize -> Card]
    /\ hand_type = "none"
    /\ id_range = <<>>
    /\ section = <<>>
    /\ new_id_ranges = <<>>
    /\ DecideIdle
    /\ Day8Idle

\* calculate_hand_type(&cards) returns, or panics in the unreachable!() arm
CalculateHandType ==
    /\ pc = "calculate_hand_type"
    /\ hand_type' = calculate_hand_type(cards)
    /\ pc' = IF calculate_hand_type(cards) = "unreachable" THEN "panicked"
             ELSE "hand_typed"
    /\ UNCHANGED <<Day12Vars, caller, cards, id_range, section, new_id_ranges,
                   DecideVars, Day8Vars>>

NextHandType == CalculateHandType

SpecHandType == InitHandType /\ [][NextHandType]_vars

\* the type of a hand without jokers, read off its groups of equal cards
Classify(hand) ==
    LET size(c) == Cardinality({i \in 1..Len(hand) : hand[i] = c})
        of_size(k) == {c \in Range(hand) : size(c) = k}
    IN CASE of_size(5) # {} -> "FiveOfAKind"
         [] of_size(4) # {} -> "FourOfAKind"
         [] of_size(3) # {} /\ of_size(2) # {} -> "FullHouse"
         [] of_size(3) # {} /\ of_size(2) = {} -> "ThreeOfAKind"
         [] of_size(3) = {} /\ Cardinality(of_size(2)) = 2 -> "TwoPair"
         [] of_size(3) = {} /\ Cardinality(of_size(2)) = 1 -> "OnePair"
         [] OTHER -> "HighCard"

Strength(t) == CHOOSE i \in 1..Len(HandType) : HandType[i] = t

\* the positions of the Jokers of a hand
JokerPositions(hand) == {i \in 1..Len(hand) : hand[i] = Joker}

\* the hands obtained by replacing each Joker with a card that is not one
Replacements(hand) ==
    {[i \in 1..Len(hand) |-> IF hand[i] = Joker THEN f[i] ELSE hand[i]] :
        f \in [JokerPositions(hand) -> Card \ {Joker}]}

StrongestType(hand) ==
    CHOOSE t \in {Classify(h) : h \in Replacements(hand)} :
        \A h \in Replacements(hand) : Strength(Classify(h)) <= Strength(t)

\* C19: for every hand of five cards, with or without Jokers,
\* calculate_hand_type returns the strongest HandType that replacing each
\* Joker with a card that is not a Joker can give (FiveOfAKind for five
\* Jokers), and the unreachable!() arm is never reached.
C19_JokersGiveStrongestType ==
    /\ pc # "panicked"
    /\ pc = "hand_typed" => hand_type = StrongestType(cards)

\* two Jokers beside a pair and a single card: FourOfAKind
C19_Witness ==
    /\ pc = "hand_typed"
    /\ Cardinality(JokerPositions(cards)) = 2
    /\ Cardinality(Range(cards)) = 3
    /\ hand_type = "FourOfAKind"

----------------------------------------------------------------------------
(* Day 5: progress_id_range *)

MaxId == 3
MaxLength == 3
MaxRanges == 2

Deltas == {-1, 2}

AlmanacRange(start, length, delta) ==
    [start |-> start, length |-> length, delta |-> delta]

AlmanacSection(source, destination, almanac_ranges) ==
    [source |-> source, destination |-> destination, ranges |-> almanac_ranges]

IdRange(category, start, length) ==
    [category |-> category, start |-> start, length |-> length]

AlmanacRanges ==
    {AlmanacRange(start, length, delta) :
        start \in 0..MaxId, length \in 1..MaxLength, delta \in Deltas}

\* range lists as parse_almanac stores them, sorted by start, of ranges that
\* do not overlap
SortedRanges ==
    {rs \in SeqsUpTo(AlmanacRanges, MaxRanges) :
        \A i \in 1..(Len(rs) - 1) : rs[i].start + rs[i].length <= rs[i + 1].start}

IdRanges ==
    {IdRange("Seed", start, length) : start \in 0..MaxId, length \in 0..MaxLength}

Min(a, b) == IF a <= b THEN a ELSE b

\* the `for almanac_range in &section.ranges` loop from the i-th range on:
\* [current, new_id_ranges] when the loop ends or breaks
RECURSIVE ProgressLoop(_, _, _, _, _)
ProgressLoop(sec, i, current, id_range_end, out) ==
    IF i > Len(sec.ranges) THEN [current |-> current, new_id_ranges |-> out]
    ELSE LET almanac_range == sec.ranges[i]
             gap == almanac_range.start > current
             id_sub_range_end == Min(almanac_range.start, id_range_end)
             out1 == IF gap
                     THEN Append(out, IdRange(sec.destination, current,
                                              id_sub_range_end - current))
                     ELSE out
             current1 == IF gap THEN almanac_range.start ELSE current
             range_end == almanac_range.start + almanac_range.length
             overlap == range_end > current1
             out2 == IF overlap
                     THEN Append(out1,
                                 IdRange(sec.destination,
                                         current1 + almanac_range.delta,
                                         Min(range_end, id_range_end) - current1))
                     ELSE out1
             current2 == IF overlap THEN range_end ELSE current1
         IN IF current1 >= id_range_end
            THEN [current |-> current1, new_id_ranges |-> out1]
            ELSE IF current2 >= id_range_end
            THEN [current |-> current2, new_id_ranges |-> out2]
            ELSE ProgressLoop(sec, i + 1, current2, id_range_end, out2)

\* fn progress_id_range, with the section almanac.get(&id_range.category) finds
progress_id_range(r, sec) ==
    LET id_range_end == r.start + r.length
        loop == ProgressLoop(sec, 1, r.start, id_range_end, <<>>)
    IN IF loop.current < id_range_end
       THEN Append(loop.new_id_ranges,
                   IdRange(sec.destination, loop.current,
                           id_range_end - loop.current))
       ELSE loop.new_id_ranges

InitProgress ==
    /\ Day12Idle
    /\ cards = <<>>
    /\ hand_type = "none"
    /\ caller = "progress_id_ranges_to_category"
    /\ pc = "progress_id_range"
    /\ id_range \in IdRanges
    /\ \E rs \in SortedRanges : section = AlmanacSection("Seed", "Soil", rs)
    /\ new_id_ranges = <<>>
    /\ DecideIdle
    /\ Day8Idle

\* progress_id_range(&id_range, &almanac) returns
ProgressIdRange ==
    /\ pc = "progress_id_range"
    /\ new_id_ranges' = progress_id_range(id_range, section)
    /\ pc' = "progressed"
    /\ UNCHANGED <<Day12Vars, caller, cards, hand_type, id_range, section,
                   DecideVars, Day8Vars>>

NextProgress == ProgressIdRange

SpecProgress == InitProgress /\ [][NextProgress]_vars

RECURSIVE SumOfLengths(_)
SumOfLengths(ranges) ==
    IF ranges = <<>> THEN 0
    ELSE ranges[1].length + SumOfLengths(Tail(ranges))

\* the source id the k-th returned range starts at, when the returned ranges
\* follow one another from id_range.start
SourceStart(k) == id_range.start + SumOfLengths(SubSeq(new_id_ranges, 1, k - 1))

\* what the section maps the source id x to
MappedId(x) ==
    IF \E i \in 1..Len(section.ranges) :
           /\ section.ranges[i].start <= x
           /\ x < section.ranges[i].start + section.ranges[i].length
    THEN x + section.ranges[CHOOSE i \in 1..Len(section.ranges) :
                               /\ section.ranges[i].start <= x
                               /\ x < section.ranges[i].start
                                        + section.ranges[i].length].delta
    ELSE x

\* the returned ranges, laid end to end from id_range.start, cover id_range
\* and hold for each source id the id the section maps it to
ProgressPartitions ==
    /\ SumOfLengths(new_id_ranges) = id_range.length
    /\ \A k \in 1..Len(new_id_ranges) :
          /\ new_id_ranges[k].category = section.destination
          /\ \A o \in 0..(new_id_ranges[k].length - 1) :
                new_id_ranges[k].start + o = MappedId(SourceStart(k) + o)

\* C20: with the section's ranges sorted by start and not overlapping,
\* progress_id_range(r) returns sub-ranges in ascending source order that
\* partition r: every length is positive, the lengths sum to r.length, every
\* sub-range has the section's destination category, and each source id x is
\* returned as x + delta if an almanac range holds x and as x otherwise.
C20_ProgressPartitionsRange ==
    pc = "progressed"
        => /\ \A k \in 1..Len(new_id_ranges) : new_id_ranges[k].length >= 1
           /\ ProgressPartitions

----------------------------------------------------------------------------
(* Day 8: count_steps and count_parallel_steps *)

MaxInstructions == 2
MaxSteps == 8

Instruction == {"Left", "Right"}

\* node labels, as sequences of characters
NodeLabels == {<<"1", "A">>, <<"2", "A">>, <<"1", "Z">>}

\* str::ends_with for a one-character pattern
ends_with(label, c) == label # <<>> /\ Last(label) = c

part_2_terminal(label) == ends_with(label, "Z")

\* networks in which every connection leads to a node of the network
ClosedNetworks ==
    UNION {[K -> K \X K] : K \in (SUBSET NodeLabels) \ {{}}}

\* the network and instructions of tests::can_count_parallel_steps
example_ghost_network ==
    LET n(a, b, c) == <<a, b, c>>
        XXX == n("X", "X", "X")
    IN (n("1", "1", "A") :> <<n("1", "1", "B"), XXX>>)
       @@ (n("1", "1", "B") :> <<XXX, n("1", "1", "Z")>>)
       @@ (n("1", "1", "Z") :> <<n("1", "1", "B"), XXX>>)
       @@ (n("2", "2", "A") :> <<n("2", "2", "B"), XXX>>)
       @@ (n("2", "2", "B") :> <<n("2", "2", "C"), n("2", "2", "C")>>)
       @@ (n("2", "2", "C") :> <<n("2", "2", "Z"), n("2", "2", "Z")>>)
       @@ (n("2", "2", "Z") :> <<n("2", "2", "B"), n("2", "2", "B")>>)
       @@ (XXX :> <<XXX, XXX>>)

example_ghost_instructions == <<"Left", "Right">>

RECURSIVE gcd(_, _)
gcd(a, b) == IF b = 0 THEN a ELSE gcd(b, a % b)

\* mutant: the product stands in for the least common multiple
lcm_as_product(a, b) == a * b

\* num::Integer::lcm
lcm(a, b) == IF a = 0 /\ b = 0 THEN 0 ELSE a * (b \div gcd(a, b))

\* network.keys().filter(|k| k.ends_with("A"))
StartNodes(net) == {k \in DOMAIN net : ends_with(k, "A")}

InitGhosts ==
    /\ Day12Idle
    /\ DecideIdle
    /\ cards = <<>>
    /\ hand_type = "none"
    /\ id_range = <<>>
    /\ section = <<>>
    /\ new_id_ranges = <<>>
    /\ caller = "count_parallel_steps"
    /\ pc = "fold"
    /\ \/ /\ instructions \in SeqsUpTo(Instruction, MaxInstructions)
          /\ network \in ClosedNetworks
       \/ /\ instructions = example_ghost_instructions
          /\ network = example_ghost_network
    /\ starts = StartNodes(network)
    /\ position = <<>>
    /\ steps = 0
    /\ fold_acc = 1

GhostFrame ==
    UNCHANGED <<Day12Vars, DecideVars, caller, cards, hand_type, id_range,
                section, new_id_ranges, instructions, network>>

\* the iterator yields a start node: count_steps is entered with it
FoldNext ==
    /\ pc = "fold"
    /\ \E start_node \in starts :
          /\ position' = start_node
          /\ starts' = starts \ {start_node}
    /\ steps' = 0
    /\ pc' = "count_steps"
    /\ UNCHANGED fold_acc
    /\ GhostFrame

\* one pass through the body of the while loop of count_steps
CountStepsStep ==
    /\ pc = "count_steps"
    /\ ~part_2_terminal(position)
    /\ instructions # <<>>
    /\ position \in DOMAIN network
    /\ steps < MaxSteps
    /\ LET direction == instructions[(steps % Len(instructions)) + 1]
       IN position' = IF direction = "Left" THEN network[position][1]
                      ELSE network[position][2]
    /\ steps' = steps + 1
    /\ UNCHANGED <<pc, starts, fold_acc>>
    /\ GhostFrame

\* the body panics: `steps % 0` for an empty instruction list, or unwrap()
\* of a node that is not in the network
CountStepsPanic ==
    /\ pc = "count_steps"
    /\ ~part_2_terminal(position)
    /\ instructions = <<>> \/ position \notin DOMAIN network
    /\ pc' = "panicked"
    /\ UNCHANGED <<starts, position, steps, fold_acc>>
    /\ GhostFrame

\* count_steps returns steps: the fold takes steps.lcm(&acc)
CountStepsReturn ==
    /\ pc = "count_steps"
    /\ part_2_terminal(position)
    /\ fold_acc' = lcm(steps, fold_acc)
    /\ pc' = "fold"
    /\ UNCHANGED <<starts, position, steps>>
    /\ GhostFrame

\* the iterator is exhausted: the fold returns the accumulator
FoldReturn ==
    /\ pc = "fold"
    /\ starts = {}
    /\ pc' = "returned"
    /\ UNCHANGED <<starts, position, steps, fold_acc>>
    /\ GhostFrame

NextGhosts ==
    \/ FoldNext
    \/ CountStepsStep
    \/ CountStepsPanic
    \/ CountStepsReturn
    \/ FoldReturn

SpecGhosts == InitGhosts /\ [][NextGhosts]_vars

\* the node a ghost started on start_node is on after t steps
RECURSIVE GhostAt(_, _)
GhostAt(start_node, t) ==
    IF t = 0 THEN start_node
    ELSE LET before == GhostAt(start_node, t - 1)
         IN IF instructions[((t - 1) % Len(instructions)) + 1] = "Left"
            THEN network[before][1]
            ELSE network[before][2]

Ghosts == {k \in DOMAIN network : Last(k) = "A"}

AllOnZ(t) == \A g \in Ghosts : Last(GhostAt(g, t)) = "Z"

\* the number of joint states of the ghosts and the instruction pointer:
\* if the ghosts are ever all on Z nodes, they are within this many steps
Horizon ==
    (Cardinality(DOMAIN network) ^ Cardinality(Ghosts)) * Len(instructions)

\* the first step at which all ghosts are on Z nodes, or None
FirstAllOnZ ==
    IF \E t \in 0..Horizon : AllOnZ(t)
    THEN CHOOSE t \in 0..Horizon :
             AllOnZ(t) /\ \A u \in 0..(t - 1) : ~AllOnZ(u)
    ELSE None

\* a ghost is on a regular loop: it is on a Z node exactly at the multiples
\* of the number of steps it first takes to reach one
RegularLoop(g) ==
    \E n \in 1..Horizon :
        \A t \in 1..Horizon : (Last(GhostAt(g, t)) = "Z") <=> (t % n = 0)

\* C21 as stated: count_parallel_steps returns the number of steps after
\* which the ghosts started on the nodes ending in 'A' are for the first
\* time all on nodes ending in 'Z'.
C21_FirstSimultaneousStep ==
    (caller = "count_parallel_steps" /\ pc = "returned")
        => fold_acc = FirstAllOnZ

\* C21 amended: when there is at least one ghost and every ghost is on a
\* regular loop, the value count_parallel_steps returns is the first step at
\* which all ghosts are on nodes ending in 'Z'.
C21_FirstSimultaneousStepOnRegularLoops ==
    (/\ caller = "count_parallel_steps"
     /\ pc = "returned"
     /\ Ghosts # {}
     /\ \A g \in Ghosts : RegularLoop(g))
        => fold_acc = FirstAllOnZ

\* two ghosts on regular loops have met on Z nodes after more than one step
C21_Witness ==
    /\ caller = "count_parallel_steps"
    /\ pc = "returned"
    /\ Cardinality(Ghosts) = 2
    /\ \A g \in Ghosts : RegularLoop(g)
    /\ fold_acc > 1
    /\ fold_acc = FirstAllOnZ

----------------------------------------------------------------------------
(* ConditionRow::decide called on its own, as tests::can_decide_value does *)

MaxStart == 3

\* the calls of tests::can_decide_value: <<receiver, start, replacement>>
decide_examples ==
    <<  <<ConditionRow(<<Unknown(5)>>, <<>>), 0, Operational(2)>>,
        <<ConditionRow(<<Operational(2), Unknown(5)>>, <<>>), 2, Operational(2)>>,
        <<ConditionRow(<<Damaged(2), Unknown(5)>>, <<>>), 2, Operational(1)>>,
        <<ConditionRow(<<Damaged(2), Unknown(1), Damaged(2), Unknown(5)>>, <<>>),
          0, Damaged(6)>>,
        <<ConditionRow(<<Damaged(2), Unknown(1), Damaged(2), Unknown(5)>>, <<>>),
          0, Damaged(3)>>,
        <<ConditionRow(<<Operational(1), Damaged(1), Operational(1), Damaged(3),
                         Operational(1), Damaged(1), Operational(1), Damaged(1),
                         Unknown(1), Damaged(1), Unknown(1), Damaged(1),
                         Unknown(1)>>, <<>>),
          9, Damaged(6)>>  >>

DecideReplacements ==
    {[type |-> t, n |-> n] : t \in {"Operational", "Damaged"}, n \in 1..MaxRunLen}

InitDecide ==
    /\ overflow_checks \in BOOLEAN
    /\ line = <<>>
    /\ repeats = 0
    /\ result = NoRow
    /\ rows = <<>>
    /\ idx = 0
    /\ total = 0
    /\ to_visit = <<>>
    /\ visited = {}
    /\ permutations = 0
    /\ renormalized = NoRow
    /\ input = <<>>
    /\ parsed = <<>>
    /\ cards = <<>>
    /\ hand_type = "none"
    /\ id_range = <<>>
    /\ section = <<>>
    /\ new_id_ranges = <<>>
    /\ Day8Idle
    /\ caller = "decide"
    /\ pc = "decide"
    /\ \/ /\ row \in ConstructedRows
          /\ decide_start \in 0..MaxStart
          /\ decide_replacement \in DecideReplacements
       \/ \E k \in 1..Len(decide_examples) :
             /\ row = decide_examples[k][1]
             /\ decide_start = decide_examples[k][2]
             /\ decide_replacement = decide_examples[k][3]

DecideFrame ==
    UNCHANGED <<overflow_checks, caller, line, row, repeats, rows, idx, total,
                to_visit, visited, permutations, renormalized, input, parsed,
                cards, hand_type, id_range, section, new_id_ranges, DecideVars,
                Day8Vars>>

\* row.decide(start, replacement) returns
DecideCall ==
    /\ pc = "decide"
    /\ ~decide(row, decide_start, decide_replacement).panic
    /\ result' = decide(row, decide_start, decide_replacement).row
    /\ pc' = "decided"
    /\ DecideFrame

\* row.decide(start, replacement) panics: assert_eq! or u8 arithmetic
DecideCallPanic ==
    /\ pc = "decide"
    /\ decide(row, decide_start, decide_replacement).panic
    /\ pc' = "panicked"
    /\ UNCHANGED result
    /\ DecideFrame

NextDecide ==
    \/ DecideCall
    \/ DecideCallPanic

SpecDecide == InitDecide /\ [][NextDecide]_vars

\* the cells of the receiver with the cells [start, start + length) set to
\* the state of the replacement
ReplacedCells(cells, start_pos, replacement) ==
    [i \in 1..Len(cells) |->
        IF start_pos < i /\ i <= start_pos + value(replacement)
        THEN replacement.type
        ELSE cells[i]]

\* C22: row.decide(start, replacement) returns a row of the same total
\* length in which the cells [start, start + replacement.length) have the
\* replacement's state and every other cell keeps its state (runs before
\* start are retained), with adjacent runs of equal state merged and
\* damaged_counts unchanged.
C22_DecideReplacesSpan ==
    (/\ caller = "decide"
     /\ pc = "decided"
     /\ decide_start + value(decide_replacement) <= Len(CellsOf(row.springs)))
        => /\ CellsOf(result.springs)
                  = ReplacedCells(CellsOf(row.springs), decide_start,
                                  decide_replacement)
           /\ MaximalRuns(result.springs)
           /\ result.damaged_counts = row.damaged_counts

----------------------------------------------------------------------------
(* count_permutations: the decide calls made for one popped row *)

\* the scan has not reached the arm; exceeds: a `spring_index += n` went
\* past u8::MAX
NoArm(exceeds) ==
    [reached |-> FALSE, start_pos |-> 0, spring_index |-> 0,
     expected_count |-> 0, has_damaged |-> FALSE, starts_with_damaged |-> FALSE,
     exceeds |-> exceeds]

\* the locals of the scan when it reaches the arm
\* (Operational(_), Some(start_pos)); reached is FALSE when the loop breaks
\* or panics before it
RECURSIVE ScanEnd(_, _, _, _, _)
ScanEnd(current, groups, i, s, exceeded) ==
    IF i > Len(groups) THEN NoArm(exceeded)
    ELSE
    LET spring_group == groups[i]
        n == value(spring_group)
        expected_count ==
            IF s.count_index < Len(current.damaged_counts)
            THEN current.damaged_counts[s.count_index + 1] ELSE 0
        start == s.non_operational_group_start
        advanced == U8Add(s.spring_index, n)
        exceeds == exceeded \/ s.spring_index + n > U8Max
    IN IF is_operational(spring_group) /\ start # None
       THEN [reached |-> TRUE, start_pos |-> start,
             spring_index |-> s.spring_index,
             expected_count |-> expected_count,
             has_damaged |-> s.has_damaged,
             starts_with_damaged |-> s.starts_with_damaged,
             exceeds |-> exceeded]
       ELSE IF is_damaged(spring_group) /\ start = None /\ n > expected_count
       THEN NoArm(exceeded)
       ELSE IF advanced = Overflow THEN NoArm(TRUE)
       ELSE IF is_operational(spring_group)
       THEN ScanEnd(current, groups, i + 1,
                    [s EXCEPT !.spring_index = advanced], exceeds)
       ELSE IF is_damaged(spring_group) /\ start = None /\ n = expected_count
       THEN ScanEnd(current, groups, i + 1,
                    [s EXCEPT !.count_index = s.count_index + 1,
                              !.spring_index = advanced], exceeds)
       ELSE IF is_damaged(spring_group) /\ start = None
       THEN ScanEnd(current, groups, i + 1,
                    ScanState(s.count_index, advanced, s.spring_index, TRUE, TRUE),
                    exceeds)
       ELSE IF is_unknown(spring_group) /\ start = None
       THEN ScanEnd(current, groups, i + 1,
                    ScanState(s.count_index, advanced, s.spring_index,
                              FALSE, FALSE), exceeds)
       ELSE IF is_damaged(spring_group)
       THEN ScanEnd(current, groups, i + 1,
                    [s EXCEPT !.has_damaged = TRUE, !.spring_index = advanced],
                    exceeds)
       ELSE ScanEnd(current, groups, i + 1,
                    [s EXCEPT !.spring_index = advanced], exceeds)

ArmOf(current) ==
    ScanEnd(current, current.springs \o <<Operational(1)>>, 1,
            ScanState(0, 0, None, FALSE, FALSE), FALSE)

\* the arm pushes current.decide(start_pos, Damaged(expected_count))
\*                       .decide(start_pos + expected_count, Operational(1)):
\* the run fits and the cell after it is found and is not Damaged
PlacesDamagedThenOperational(current) ==
    LET a == ArmOf(current)
        after == U8Add(a.start_pos, a.expected_count)
    IN /\ a.reached
       /\ a.spring_index - a.start_pos >= a.expected_count
       /\ after # Overflow
       /\ ~spring_at(current, after).panic
       /\ spring_at(current, after).found
       /\ ~is_damaged(spring_at(current, after).group)

\* the row the while loop is about to expand
Expanding ==
    /\ pc = "count"
    /\ to_visit # <<>>
    /\ Last(to_visit).springs \notin visited
    /\ has_unknown(Last(to_visit))

\* the parent's cells with the c cells from start_pos Damaged and the cell
\* after them Operational
PlacedCells(current) ==
    LET a == ArmOf(current)
    IN ReplacedCells(ReplacedCells(CellsOf(current.springs), a.start_pos,
                                   Damaged(a.expected_count)),
                     a.start_pos + a.expected_count, Operational(1))

\* C23: when count_permutations places a damaged run of the expected length
\* at start_pos and the cell after it is not confirmed Damaged, the pushed
\* child differs from the parent exactly in that the c cells from start_pos
\* are Damaged and the cell right after them is Operational; no other cell is
\* changed or discarded.
C23_PlacedChildDiffersInSpanOnly ==
    [][(Expanding /\ PlacesDamagedThenOperational(Last(to_visit)))
          => /\ pc' = "count"
             /\ \E k \in 1..Len(to_visit') :
                   CellsOf(to_visit'[k].springs) = PlacedCells(Last(to_visit))]_vars

----------------------------------------------------------------------------
(* count_permutations: the rows popped from to_visit *)

\* the rows `to_visit.pop()` has returned, in order, when the loop with the
\* locals s ends or panics
RECURSIVE PoppedLoop(_, _)
PoppedLoop(s, popped) ==
    IF s.panic \/ s.to_visit = <<>> THEN popped
    ELSE PoppedLoop(CountStep(s), Append(popped, Last(s.to_visit)))

\* the rows popped during count_permutations(r)
Popped(r) ==
    PoppedLoop([to_visit |-> <<r>>, visited |-> {}, permutations |-> 0,
                panic |-> FALSE], <<>>)

\* C24: any two rows popped from to_visit with equal springs have equal
\* damaged_counts, so the visited check keyed on springs alone never skips a
\* row whose remaining counts differ from those of the row visited before.
C24_EqualSpringsEqualCounts ==
    (caller = "count_permutations" /\ pc \in {"returned", "panicked"})
        => \A i, j \in 1..Len(Popped(row)) :
               Popped(row)[i].springs = Popped(row)[j].springs
                   => Popped(row)[i].damaged_counts = Popped(row)[j].damaged_counts

----------------------------------------------------------------------------
(* count_permutations: the rows one iteration pushes *)

RECURSIVE SumOfArrangements(_)
SumOfArrangements(pushed) ==
    IF pushed = <<>> THEN 0
    ELSE Arrangements(pushed[1]) + SumOfArrangements(Tail(pushed))

\* C25: for every popped row with at least one Unknown run, the number of
\* valid arrangements of the row equals the sum of the numbers of valid
\* arrangements of the rows the iteration pushes: the branches are
\* exhaustive and mutually exclusive.
C25_BranchesPartitionArrangements ==
    [][(Expanding /\ pc' = "count")
          => Arrangements(Last(to_visit))
                 = SumOfArrangements(SubSeq(to_visit', Len(to_visit),
                                            Len(to_visit')))]_vars

----------------------------------------------------------------------------
(* count_permutations: the decide calls of one iteration, and what the     *)
(* loop of decide does with the runs before start                          *)

DecideArgs(self, start_pos, replacement) ==
    [self |-> self, start |-> start_pos, replacement |-> replacement]

\* the decide calls the iteration for current makes, in order, up to the
\* first one that panics
DecideCallsOf(current) ==
    LET a == ArmOf(current)
        c == a.expected_count
        non_op_length == a.spring_index - a.start_pos
        after == U8Add(a.start_pos, c)
        next == spring_at(current, after)
        first == decide(current, a.start_pos, Damaged(c))
        placed ==
            IF after = Overflow \/ next.panic THEN <<>>
            ELSE IF ~next.found
            THEN <<DecideArgs(current, a.start_pos, Damaged(c))>>
            ELSE IF is_damaged(next.group) THEN <<>>
            ELSE <<DecideArgs(current, a.start_pos, Damaged(c))>>
                 \o (IF first.panic THEN <<>>
                     ELSE <<DecideArgs(first.row, after, Operational(1))>>)
        placed_panics ==
            \/ after = Overflow
            \/ next.panic
            \/ \E k \in 1..Len(placed) :
                  decide(placed[k].self, placed[k].start,
                         placed[k].replacement).panic
    IN IF ~a.reached THEN <<>>
       ELSE IF non_op_length < c /\ ~a.has_damaged
       THEN <<DecideArgs(current, a.start_pos, Operational(non_op_length))>>
       ELSE IF non_op_length >= c
       THEN placed
            \o (IF ~placed_panics /\ ~a.starts_with_damaged
                THEN <<DecideArgs(current, a.start_pos, Operational(1))>>
                ELSE <<>>)
       ELSE <<>>

\* the branch `if start_remaining > 0` of the loop of decide from the i-th
\* run on: whether `start_remaining -= group.value()` underflows and whether
\* the assert_eq! fails.  With overflow checks the underflow panics; without
\* them start_remaining wraps and the loop goes on.
RECURSIVE BeforeStart(_, _, _, _, _)
BeforeStart(springs, i, start_remaining, new_counts, underflowed) ==
    IF i > Len(springs) \/ start_remaining = 0
    THEN [underflow |-> underflowed, assert |-> FALSE]
    ELSE LET group == springs[i]
             underflows == start_remaining < value(group)
             rem == U8Sub(start_remaining, value(group))
         IN IF rem = Overflow THEN [underflow |-> TRUE, assert |-> FALSE]
            ELSE IF is_damaged(group)
                    /\ ~(new_counts # <<>> /\ new_counts[1] = value(group))
            THEN [underflow |-> underflowed \/ underflows, assert |-> TRUE]
            ELSE BeforeStart(springs, i + 1, rem,
                             IF is_damaged(group) THEN Tail(new_counts)
                             ELSE new_counts,
                             underflowed \/ underflows)

BeforeStartOf(call) ==
    BeforeStart(call.self.springs, 1, call.start, call.self.damaged_counts,
                FALSE)

\* C26: in every decide call made during count_permutations each Damaged run
\* before start has the length of the next damaged_counts entry not yet
\* consumed, so the assert_eq! in decide never fires for a well-formed row.
C26_AssertNeverFires ==
    Expanding
        => \A k \in 1..Len(DecideCallsOf(Last(to_visit))) :
               ~BeforeStartOf(DecideCallsOf(Last(to_visit))[k]).assert

\* C27: in every decide call reachable from count_permutations, the second
\* call of a chained decide included, start is a run boundary of the
\* receiver, so `start_remaining -= group.value()` never underflows.
C27_StartNeverUnderflows ==
    Expanding
        => \A k \in 1..Len(DecideCallsOf(Last(to_visit))) :
               ~BeforeStartOf(DecideCallsOf(Last(to_visit))[k]).underflow

----------------------------------------------------------------------------
(* explode and count_permutations on rows close to 255 cells *)

MaxWideRuns == 2

\* run lengths that bring sums of two and three runs next to u8::MAX
WideLens == {1, (U8Max - 1) \div 2, U8Max - 2}

WideConditions ==
    {[type |-> t, n |-> n] : t \in {"Operational", "Damaged", "Unknown"},
                             n \in WideLens}

WideRows ==
    {ConditionRow(springs, damaged_counts) :
        springs \in {v \in SeqsUpTo(WideConditions, MaxWideRuns) : MaximalRuns(v)},
        damaged_counts \in {<<>>, <<1>>, <<(U8Max - 1) \div 2>>}}

InitWide ==
    /\ overflow_checks \in BOOLEAN
    /\ OtherIdle
    /\ line = <<>>
    /\ row \in WideRows
    /\ result = NoRow
    /\ rows = <<>>
    /\ idx = 0
    /\ total = 0
    /\ permutations = 0
    /\ visited = {}
    /\ \/ /\ caller = "ConditionRow::new"
          /\ pc = "explode"
          /\ repeats \in 1..MaxRepeats
          /\ to_visit = <<>>
       \/ /\ caller = "count_permutations"
          /\ pc = "count"
          /\ repeats = 1
          /\ to_visit = <<row>>

NextWide ==
    \/ Explode
    \/ ExplodePanic
    \/ VisitSkip
    \/ VisitResolved
    \/ VisitUndecided
    \/ VisitPanic
    \/ CountReturn

SpecWide == InitWide /\ [][NextWide]_vars

\* the addition in push_group goes past u8::MAX
PushGroupExceeds(vec, new_group) ==
    /\ vec # <<>>
    /\ same_type(Last(vec), new_group)
    /\ value(Last(vec)) + value(new_group) > U8Max

\* the loop state of a decide call before its i-th iteration
DecideStateBefore(call, i) ==
    DecideLoop(SubSeq(call.self.springs, 1, i - 1), 1,
               DecideState(<<>>, call.self.damaged_counts, call.start,
                           value(call.replacement), FALSE),
               call.replacement)

\* an addition of the push_group calls of one iteration of the loop of
\* decide goes past u8::MAX
DecideGroupExceeds(s, group, replacement) ==
    IF s.start_remaining > 0 THEN FALSE
    ELSE IF s.replace_remaining = 0 THEN PushGroupExceeds(s.new_springs, group)
    ELSE IF s.replace_remaining <= value(group)
    THEN \/ PushGroupExceeds(s.new_springs, replacement)
         \/ /\ s.replace_remaining < value(group)
            /\ PushGroupExceeds(push_group(s.new_springs, replacement).vec,
                                with_value(group,
                                           value(group) - s.replace_remaining))
    ELSE FALSE

DecideExceeds(call) ==
    \E i \in 1..Len(call.self.springs) :
        /\ ~DecideStateBefore(call, i).panic
        /\ DecideGroupExceeds(DecideStateBefore(call, i), call.self.springs[i],
                              call.replacement)

\* `curr += group.value()` in spring_at goes past u8::MAX before the group
\* holding pos is found
SpringAtExceeds(self, pos) ==
    \E i \in 1..Len(self.springs) :
        /\ TotalLength(SubSeq(self.springs, 1, i)) > U8Max
        /\ \A j \in 1..(i - 1) : TotalLength(SubSeq(self.springs, 1, j)) <= pos

\* an u8 addition of the iteration of count_permutations for current goes
\* past u8::MAX
AddsExceed(current) ==
    LET a == ArmOf(current)
    IN \/ a.exceeds
       \/ /\ a.reached
          /\ a.spring_index - a.start_pos >= a.expected_count
          /\ \/ a.start_pos + a.expected_count > U8Max
             \/ SpringAtExceeds(current, a.start_pos + a.expected_count)
       \/ \E k \in 1..Len(DecideCallsOf(current)) :
             DecideExceeds(DecideCallsOf(current)[k])

\* the decide call explode ends with
ExplodeDecide(r, k) ==
    DecideArgs(ConditionRow(ExplodeSprings(r.springs, k),
                            Repeat(r.damaged_counts, k)),
               0, Operational(0))

\* C28: for every row whose total length after unfolding is at most 254
\* cells, no u8 addition in explode, push_group, spring_at or
\* count_permutations exceeds 255: none goes past u8::MAX, and with overflow
\* checks every panic is one of decide's subtraction or assert_eq!.
C28_NoAdditionExceedsU8 ==
    /\ (/\ caller = "ConditionRow::new"
        /\ TotalLength(ExplodeSprings(row.springs, repeats)) <= U8Max - 1)
           => /\ ~DecideExceeds(ExplodeDecide(row, repeats))
              /\ pc # "panicked"
    /\ (/\ caller = "count_permutations"
        /\ TotalLength(row.springs) <= U8Max - 1
        /\ Expanding)
           => /\ ~AddsExceed(Last(to_visit))
              /\ (overflow_checks /\ Branches(Last(to_visit)).panic)
                     => \E k \in 1..Len(DecideCallsOf(Last(to_visit))) :
                           LET b == BeforeStartOf(DecideCallsOf(Last(to_visit))[k])
                           IN b.underflow \/ b.assert

\* a row of 254 cells is being counted and a decide has merged two runs
\* into one of 254 cells
C28_Witness ==
    /\ caller = "count_permutations"
    /\ pc = "count"
    /\ TotalLength(row.springs) = U8Max - 1
    /\ visited # {}
    /\ \E k \in 1..Len(to_visit) : \E i \in 1..Len(to_visit[k].springs) :
          value(to_visit[k].springs[i]) = U8Max - 1

----------------------------------------------------------------------------
(* Termination of count_permutations *)

\* one iteration of the while loop
LoopIteration ==
    \/ VisitSkip
    \/ VisitResolved
    \/ VisitUndecided
    \/ VisitPanic

\* the program keeps running: while to_visit is not empty the loop takes its
\* next iteration (an iteration is enabled exactly when pc = "count" and
\* to_visit is not empty), and when it is empty the function returns
LoopRuns ==
    \/ []<>(pc # "count" \/ to_visit = <<>>)
    \/ []<><<LoopIteration>>_vars

SpecTerminates == Spec /\ LoopRuns /\ WF_vars(CountReturn)

----------------------------------------------------------------------------
(* The size of visited *)

\* C30: while count_permutations runs on a row of L cells with m damaged
\* counts, visited never holds more than (L + 1) * (m + 1) entries.
C30_VisitedIsBounded ==
    caller = "count_permutations"
        => Cardinality(visited)
               <= (TotalLength(row.springs) + 1) * (Len(row.damaged_counts) + 1)

====
